---- MODULE Spec2Model ----
(***************************************************************************)
(* A model of the ChatAgent of src/src/main.py: the conversation history,  *)
(* the operations on it, the retried send_message and the JSON save/load,  *)
(* driven by the owner of the agent: the chat loop of main() or any other  *)
(* caller of its methods.                                                  *)
(*                                                                         *)
(* A Python str is modelled as a sequence of units: a unit is either one   *)
(* of the characters that JSON treats specially (DQ, BS, NL, SP and the    *)
(* structural characters) or a run of ordinary characters such as "Hi".    *)
(* A message is the dict {"role": str, "content": str}.                    *)
(***************************************************************************)
EXTENDS Integers, Sequences, FiniteSets, TLC

VARIABLES
    conversation_history,  \* self.conversation_history
    file,                  \* the file on disk that save/load name
    pc,                    \* where the caller is: "idle" (between calls, at the
                           \* prompt of the chat loop), "attempt", "sleep" (in
                           \* send_message), "exited" (the chat loop has ended),
                           \* "aborted" (the construction failed)
    attempt_number,        \* tenacity's retry_state.attempt_number (0: no send)
    call,                  \* the send_message call in flight, or NoCall
    last,                  \* the last completed operation, its inputs and outcome
    saved,                 \* what the last save wrote, if it completed
    loaded,                \* whether a load has ever replaced the history
    api_key                \* os.getenv("OPENAI_API_KEY"): <<>> is None, <<text>> a str

vars == <<conversation_history, file, pc, attempt_number, call, last, saved, loaded,
          api_key>>

----------------------------------------------------------------------------
(* Bounds of the model *)

\* The caller appends a message (add_message with role user or assistant,
\* send_message) only to a history of fewer than MaxLen messages, and saves
\* only a history of at most MaxLen messages.
MaxLen == 2

\* The wait of the retry policy is looked at for attempt numbers up to
\* MaxAttemptNumber.
MaxAttemptNumber == 6

----------------------------------------------------------------------------
(* Strings *)

DQ == "\""
BS == "\\"
NL == "\n"
SP == " "

SYSTEM == <<"system">>
USER == <<"user">>
ASSISTANT == <<"assistant">>
TOOL == <<"tool">>

ValidRoles == {USER, ASSISTANT, SYSTEM}

DefaultPrompt == <<"You are a helpful AI assistant.">>

\* The system prompts the caller supplies: a plain one and one made of the
\* characters the JSON encoder has to escape; the content of the user,
\* assistant and other messages it adds or sends; the provider's replies
Texts == { <<"Hi">>, <<DQ, BS, "n", NL>> }
Contents == { <<"Hi">> }
Replies == { <<"Hello!">> }

Msg(role, content) == [role |-> role, content |-> content]

----------------------------------------------------------------------------
(* JSON: json.dump(history, f, indent=2, ensure_ascii=False) and json.load *)

\* an escape table that leaves the backslash as it is
EscapeUnit_keeps_backslash(c) ==
    IF c = DQ THEN <<BS, DQ>>
    ELSE IF c = NL THEN <<BS, "n">>
    ELSE <<c>>

\* json.encoder.py_encode_basestring: ESCAPE_DCT
EscapeUnit(c) ==
    IF c = DQ THEN <<BS, DQ>>
    ELSE IF c = BS THEN <<BS, BS>>
    ELSE IF c = NL THEN <<BS, "n">>
    ELSE <<c>>

RECURSIVE EscapeAll(_)
EscapeAll(s) ==
    IF s = <<>> THEN <<>> ELSE EscapeUnit(Head(s)) \o EscapeAll(Tail(s))

encode_basestring(s) == <<DQ>> \o EscapeAll(s) \o <<DQ>>

Indent(n) == [i \in 1..n |-> SP]

DumpMessage(m) ==
    <<"{", NL>> \o Indent(4) \o encode_basestring(<<"role">>) \o <<":", SP>>
        \o encode_basestring(m.role) \o <<",", NL>>
        \o Indent(4) \o encode_basestring(<<"content">>) \o <<":", SP>>
        \o encode_basestring(m.content)
        \o <<NL>> \o Indent(2) \o <<"}">>

RECURSIVE DumpItems(_)
DumpItems(h) ==
    IF Len(h) = 1 THEN DumpMessage(h[1])
    ELSE DumpMessage(Head(h)) \o <<",", NL>> \o Indent(2) \o DumpItems(Tail(h))

dump(h) ==
    IF h = <<>> THEN <<"[", "]">>
    ELSE <<"[", NL>> \o Indent(2) \o DumpItems(h) \o <<NL, "]">>

Fail == [ok |-> FALSE, val |-> <<>>, next |-> 0]
Parsed(v, n) == [ok |-> TRUE, val |-> v, next |-> n]

RECURSIVE SkipWS(_, _)
SkipWS(d, i) ==
    IF i <= Len(d) /\ d[i] \in {SP, NL} THEN SkipWS(d, i + 1) ELSE i

At(d, i, c) == i <= Len(d) /\ d[i] = c

\* json.decoder.py_scanstring (strict): BACKSLASH
Unescape(c) ==
    IF c = DQ THEN <<DQ>>
    ELSE IF c = BS THEN <<BS>>
    ELSE IF c = "n" THEN <<NL>>
    ELSE <<>>

RECURSIVE scanstring(_, _, _)
scanstring(d, i, acc) ==
    IF i > Len(d) THEN Fail
    ELSE IF d[i] = DQ THEN Parsed(acc, i + 1)
    ELSE IF d[i] = NL THEN Fail
    ELSE IF d[i] = BS THEN
        IF i + 1 > Len(d) \/ Unescape(d[i + 1]) = <<>> THEN Fail
        ELSE scanstring(d, i + 2, acc \o Unescape(d[i + 1]))
    ELSE scanstring(d, i + 1, Append(acc, d[i]))

StringAt(d, k) == IF At(d, k, DQ) THEN scanstring(d, k + 1, <<>>) ELSE Fail
ParseString(d, i) == StringAt(d, SkipWS(d, i))

\* json.decoder.JSONObject, for objects whose values are strings: at i a key
\* is expected; pairs is the sequence of <<key, value>> read so far
RECURSIVE JSONObject(_, _, _)
\* after a pair, at e: "," and the next pair, or "}"
ObjectNext(d, e, pairs) ==
    IF At(d, e, ",") THEN JSONObject(d, e + 1, pairs)
    ELSE IF At(d, e, "}") THEN Parsed(pairs, e + 1)
    ELSE Fail
\* the value v read for key
ObjectPair(d, key, v, pairs) ==
    IF ~v.ok THEN Fail
    ELSE ObjectNext(d, SkipWS(d, v.next), Append(pairs, <<key, v.val>>))
\* after the key, at c: ":" and the value
ObjectColon(d, key, c, pairs) ==
    IF ~At(d, c, ":") THEN Fail
    ELSE ObjectPair(d, key, ParseString(d, c + 1), pairs)
ObjectKey(d, key, pairs) ==
    IF ~key.ok THEN Fail
    ELSE ObjectColon(d, key.val, SkipWS(d, key.next), pairs)
JSONObject(d, i, pairs) == ObjectKey(d, ParseString(d, i), pairs)

\* the dict built from the pairs: a later pair with the same key wins
RECURSIVE Get(_, _)
Get(pairs, key) ==
    IF pairs = <<>> THEN <<>>
    ELSE IF pairs[Len(pairs)][1] = key THEN <<pairs[Len(pairs)][2]>>
    ELSE Get(SubSeq(pairs, 1, Len(pairs) - 1), key)

\* the message a parsed object o is: the model holds only the dicts whose
\* keys are "role" and "content"
MessageOf(o) ==
    IF ~o.ok \/ Len(o.val) # 2 \/ Get(o.val, <<"role">>) = <<>>
           \/ Get(o.val, <<"content">>) = <<>>
    THEN Fail
    ELSE Parsed(Msg(Get(o.val, <<"role">>)[1], Get(o.val, <<"content">>)[1]), o.next)
ObjectAt(d, k) ==
    IF At(d, k, "{") THEN MessageOf(JSONObject(d, k + 1, <<>>)) ELSE Fail
ParseMessage(d, i) == ObjectAt(d, SkipWS(d, i))

\* json.decoder.JSONArray: at i an item is expected
RECURSIVE JSONArray(_, _, _)
ArrayNext(d, e, items) ==
    IF At(d, e, ",") THEN JSONArray(d, e + 1, items)
    ELSE IF At(d, e, "]") THEN Parsed(items, e + 1)
    ELSE Fail
ArrayItem(d, m, items) ==
    IF ~m.ok THEN Fail
    ELSE ArrayNext(d, SkipWS(d, m.next), Append(items, m.val))
JSONArray(d, i, items) == ArrayItem(d, ParseMessage(d, i), items)

ArrayAt(d, k) ==
    IF ~At(d, k, "[") THEN Fail
    ELSE IF At(d, SkipWS(d, k + 1), "]") THEN Parsed(<<>>, SkipWS(d, k + 1) + 1)
    ELSE JSONArray(d, k + 1, <<>>)
\* JSONDecoder.decode: nothing but white space may follow the document
Document(d, a) ==
    IF a.ok /\ SkipWS(d, a.next) = Len(d) + 1 THEN a ELSE Fail

\* json.load of a file that holds an array of messages or a damaged
\* document (a JSONDecodeError); the model holds no file of another shape
load(d) == Document(d, ArrayAt(d, SkipWS(d, 1)))

----------------------------------------------------------------------------
(* Exceptions and the retry policy of send_message *)

MaxAttempts == 3     \* stop_after_attempt(3)
Multiplier == 1      \* wait_exponential(multiplier=1, ...)
MinWait == 2         \* wait_exponential(min=2, ...)
MaxWait == 10        \* wait_exponential(max=10)

\* the failures of the provider call, by the class handle_error tests for
ErrorKinds == {"RateLimitError", "APIConnectionError", "BadRequestError",
               "APIError", "Exception"}

\* an exception object: its class and the attempt that raised it (0: none)
Exc(kind, n) == [kind |-> kind, attempt |-> n]
NoError == Exc("none", 0)

Max(a, b) == IF a >= b THEN a ELSE b
Min(a, b) == IF a <= b THEN a ELSE b

\* a backoff whose exponent is the number of attempts left
wait_exponential_attempts_left(n) ==
    Max(Max(0, MinWait), Min(Multiplier * 2 ^ (MaxAttempts - n), MaxWait))

\* a wait that is not clamped between min and max
wait_exponential_unclamped(n) == Multiplier * 2 ^ (n - 1)

\* tenacity.wait_exponential.__call__ with exp_base 2:
\* max(max(0, min), min(multiplier * 2 ** (attempt_number - 1), max))
wait_exponential(n) ==
    Max(Max(0, MinWait), Min(Multiplier * 2 ^ (n - 1), MaxWait))

\* a stop condition that is one attempt late
stop_after_attempt_late(n) == n > MaxAttempts

\* tenacity.stop_after_attempt.__call__
stop_after_attempt(n) == n >= MaxAttempts

\* reraise=True: what the retrying wrapper raises once stop says so, given
\* retry_state.outcome, the exception of the last attempt made
reraise(outcome) == outcome

\* the classes an exception of class kind is an instance of (openai 1.x:
\* RateLimitError and BadRequestError are APIStatusError, which is APIError;
\* APIConnectionError is APIError)
Bases(kind) ==
    IF kind = "RateLimitError"
    THEN {"RateLimitError", "APIStatusError", "APIError", "Exception"}
    ELSE IF kind = "BadRequestError"
    THEN {"BadRequestError", "APIStatusError", "APIError", "Exception"}
    ELSE IF kind = "APIConnectionError"
    THEN {"APIConnectionError", "APIError", "Exception"}
    ELSE IF kind = "APIError"
    THEN {"APIError", "Exception"}
    ELSE {kind, "Exception"}

isinstance(error, class) == class \in Bases(error.kind)

\* str(error)
str(error) == <<"text of", error.kind, error.attempt>>

\* time.strftime("%Y-%m-%d %H:%M:%S"): a reading of the clock
strftime == "YYYY-mm-dd HH:MM:SS"

\* a handle_error that tests for APIError before its subclasses
handle_error_generic_first(error) ==
    [error_type |-> error.kind,
     message |-> str(error),
     timestamp |-> strftime,
     suggestion |->
        IF isinstance(error, "APIError")
        THEN "There was an issue with the API. Please try again later."
        ELSE IF isinstance(error, "RateLimitError")
        THEN "Please try again later. The API is currently experiencing high demand."
        ELSE IF isinstance(error, "APIConnectionError")
        THEN "Please check your internet connection and try again."
        ELSE IF isinstance(error, "BadRequestError")
        THEN "The API request was malformed. Please check your inputs."
        ELSE "An unexpected error occurred. Please try again or contact support."]

\* APIErrorHandler.handle_error: the error_info it returns
handle_error(error) ==
    [error_type |-> error.kind,
     message |-> str(error),
     timestamp |-> strftime,
     suggestion |->
        IF isinstance(error, "RateLimitError")
        THEN "Please try again later. The API is currently experiencing high demand."
        ELSE IF isinstance(error, "APIConnectionError")
        THEN "Please check your internet connection and try again."
        ELSE IF isinstance(error, "BadRequestError")
        THEN "The API request was malformed. Please check your inputs."
        ELSE IF isinstance(error, "APIError")
        THEN "There was an issue with the API. Please try again later."
        ELSE "An unexpected error occurred. Please try again or contact support."]

NoInfo == [error_type |-> "", message |-> <<>>, timestamp |-> "", suggestion |-> ""]

----------------------------------------------------------------------------
(* The operations of ChatAgent, as functions of the history *)

\* a set_system_prompt that inserts without looking for a system message
set_system_prompt_inserts(h, system_prompt) == <<Msg(SYSTEM, system_prompt)>> \o h

\* a set_system_prompt that overwrites the first message whatever its role
set_system_prompt_overwrites_first(h, system_prompt) ==
    IF h # <<>>
    THEN [h EXCEPT ![1].content = system_prompt]
    ELSE <<Msg(SYSTEM, system_prompt)>>

set_system_prompt(h, system_prompt) ==
    IF h # <<>> /\ h[1].role = SYSTEM
    THEN [h EXCEPT ![1].content = system_prompt]
    ELSE <<Msg(SYSTEM, system_prompt)>> \o h

\* an add_message that appends before it validates the role
add_message_appends_first(h, role, content) ==
    IF role = SYSTEM
    THEN [hist |-> set_system_prompt(h, content), raised |-> NoError]
    ELSE [hist |-> Append(h, Msg(role, content)),
          raised |-> IF role \notin ValidRoles THEN Exc("ValueError", 0) ELSE NoError]

\* an add_message that appends a system message like any other
add_message_appends_system(h, role, content) ==
    IF role \notin ValidRoles
    THEN [hist |-> h, raised |-> Exc("ValueError", 0)]
    ELSE [hist |-> Append(h, Msg(role, content)), raised |-> NoError]

\* an add_message that puts the message in front of the history
add_message_prepends(h, role, content) ==
    IF role \notin ValidRoles
    THEN [hist |-> h, raised |-> Exc("ValueError", 0)]
    ELSE IF role = SYSTEM
    THEN [hist |-> set_system_prompt(h, content), raised |-> NoError]
    ELSE [hist |-> <<Msg(role, content)>> \o h, raised |-> NoError]

\* the history add_message leaves and the exception it raises
add_message(h, role, content) ==
    IF role \notin ValidRoles
    THEN [hist |-> h, raised |-> Exc("ValueError", 0)]
    ELSE IF role = SYSTEM
    THEN [hist |-> set_system_prompt(h, content), raised |-> NoError]
    ELSE [hist |-> Append(h, Msg(role, content)), raised |-> NoError]

\* a clear_conversation that keeps the system prompt whatever the flag
clear_conversation_ignores_flag(h, keep_system_prompt) ==
    IF h # <<>> /\ h[1].role = SYSTEM THEN <<Msg(SYSTEM, h[1].content)>> ELSE <<>>

clear_conversation(h, keep_system_prompt) ==
    IF keep_system_prompt /\ h # <<>> /\ h[1].role = SYSTEM
    THEN <<Msg(SYSTEM, h[1].content)>>
    ELSE <<>>

\* an __init__ that tests system_prompt is not None
init_history_not_none(system_prompt) ==
    IF system_prompt # <<>>
    THEN set_system_prompt(<<>>, system_prompt[1])
    ELSE set_system_prompt(<<>>, DefaultPrompt)

\* __init__: system_prompt is <<>> for None and <<text>> for a str
init_history(system_prompt) ==
    IF system_prompt # <<>> /\ system_prompt[1] # <<>>
    THEN set_system_prompt(<<>>, system_prompt[1])
    ELSE set_system_prompt(<<>>, DefaultPrompt)

----------------------------------------------------------------------------
(* Records of what happened *)

\* a send_message call: its argument, the history it found, the message
\* lists given to the provider, the sleeps made, retry_state.outcome (the
\* exception of the last attempt), the number of handle_error calls and the
\* error_info of the last one
NoCall == [message |-> <<>>, pre |-> <<>>, requests |-> <<>>, sleeps |-> <<>>,
           outcome |-> NoError, handled |-> 0, info |-> NoInfo]

\* an except block that logs the exception without classifying it
send_message_except_unclassified(c, error) == [c EXCEPT !.outcome = error]

\* send_message, except Exception as e: handle_error(e), log, raise
send_message_except(c, error) ==
    [c EXCEPT !.outcome = error, !.handled = @ + 1, !.info = handle_error(error)]

\* a chat loop whose handler gives up on any exception
chat_loop_except_gives_up(error) == "exited"

\* the chat loop of main(): except KeyboardInterrupt: break;
\* except Exception: print the error and go on with the loop
chat_loop_except(error) ==
    IF error.kind = "KeyboardInterrupt" THEN "exited" ELSE "idle"
NoPrior == [set |-> FALSE, pre |-> <<>>, text |-> <<>>]

Completed(op, pre, args, raised, ret) ==
    [op |-> op, pre |-> pre, args |-> args, raised |-> raised, ret |-> ret,
     call |-> NoCall, prior |-> NoPrior]

NoFile == [exists |-> FALSE, data |-> <<>>]
OnDisk(d) == [exists |-> TRUE, data |-> d]
NotSaved == [valid |-> FALSE, hist |-> <<>>]

\* files found on disk at start: none, a document cut short, and two written
\* by other means whose histories no sequence of operations builds
ForeignHistories ==
    { <<Msg(USER, <<"Hi">>), Msg(SYSTEM, <<"Hi">>), Msg(SYSTEM, <<"n">>)>>,
      <<Msg(TOOL, <<"Hi">>)>> }
InitialFiles ==
    {NoFile, OnDisk(SubSeq(dump(<<Msg(USER, <<"Hi">>)>>), 1, 20))} \cup {OnDisk(dump(h)) : h \in ForeignHistories}

ConstructorPrompts == {<<>>, << <<>> >>} \cup {<<t>> : t \in Texts}

\* the environment: no OPENAI_API_KEY, an empty one, a key
ApiKeys == {<<>>, << <<>> >>, << <<"sk-key">> >>}

\* a get_openai_api_key that hands on whatever the environment holds
get_openai_api_key_unchecked(env) == NoError

\* get_openai_api_key: what it raises (if not api_key: raise ValueError)
get_openai_api_key(env) ==
    IF env = <<>> \/ env[1] = <<>> THEN Exc("ValueError", 0) ELSE NoError

\* create_openai_client: what it raises; transport tells whether the
\* certificate file is there and the HTTP client could be built
create_openai_client(env, transport) ==
    IF get_openai_api_key(env) # NoError
    THEN Exc("ValueError", 0)
    ELSE IF ~transport
    THEN Exc("Exception", 0)
    ELSE NoError

\* main(): agent = ChatAgent(...) inside try; except Exception: return 1
main_except(raised) == IF raised = NoError THEN "idle" ELSE "aborted"

----------------------------------------------------------------------------
(* The state machine *)

Init ==
    \E system_prompt \in ConstructorPrompts, env \in ApiKeys, transport \in BOOLEAN :
        /\ api_key = env
        /\ conversation_history =
               IF create_openai_client(env, transport) = NoError
               THEN init_history(system_prompt)
               ELSE <<>>
        /\ file \in InitialFiles
        /\ pc = main_except(create_openai_client(env, transport))
        /\ attempt_number = 0
        /\ call = NoCall
        /\ last = Completed("__init__", <<>>, [system_prompt |-> system_prompt],
                            create_openai_client(env, transport), <<>>)
        /\ saved = NotSaved
        /\ loaded = FALSE

SetSystemPrompt(text) ==
    /\ pc = "idle"
    /\ conversation_history' = set_system_prompt(conversation_history, text)
    /\ last' = [Completed("set_system_prompt", conversation_history,
                          [text |-> text], NoError, <<>>)
                  EXCEPT !.prior =
                      IF last.op = "set_system_prompt"
                      THEN [set |-> TRUE, pre |-> last.pre, text |-> last.args.text]
                      ELSE NoPrior]
    /\ UNCHANGED <<file, pc, attempt_number, call, saved, loaded, api_key>>

AddMessage(role, content) ==
    /\ pc = "idle"
    /\ role \in {USER, ASSISTANT} => Len(conversation_history) < MaxLen
    /\ LET r == add_message(conversation_history, role, content) IN
        /\ conversation_history' = r.hist
        /\ last' = Completed("add_message", conversation_history,
                             [role |-> role, content |-> content], r.raised, <<>>)
    /\ UNCHANGED <<file, pc, attempt_number, call, saved, loaded, api_key>>

ClearConversation(keep_system_prompt) ==
    /\ pc = "idle"
    /\ conversation_history' = clear_conversation(conversation_history, keep_system_prompt)
    /\ last' = Completed("clear_conversation", conversation_history,
                         [keep_system_prompt |-> keep_system_prompt], NoError, <<>>)
    /\ UNCHANGED <<file, pc, attempt_number, call, saved, loaded, api_key>>

\* save_conversation: the open fails, or it truncates the file and the write
\* fails, or the document is written; the exception is logged, never raised
SaveConversation(outcome) ==
    /\ pc = "idle"
    /\ Len(conversation_history) <= MaxLen
    /\ LET doc == dump(conversation_history) IN
        \/ /\ outcome = "open fails"
           /\ UNCHANGED <<file, saved>>
        \/ /\ outcome = "write fails"
           /\ file' = OnDisk(<<>>)
           /\ saved' = NotSaved
        \/ /\ outcome = "written"
           /\ file' = OnDisk(doc)
           /\ saved' = [valid |-> TRUE, hist |-> conversation_history]
    /\ last' = Completed("save_conversation", conversation_history,
                         [outcome |-> outcome], NoError, <<>>)
    /\ UNCHANGED <<conversation_history, pc, attempt_number, call, loaded, api_key>>

\* a load_conversation that empties the history before it reads the file
Loaded_clearing_first(readable, r) ==
    /\ conversation_history' = IF r.ok THEN r.val ELSE <<>>
    /\ loaded' = (loaded \/ r.ok)
    /\ last' = Completed("load_conversation", conversation_history,
                         [readable |-> readable], NoError, r.ok)

\* a load_conversation that takes only a history add_message could have built
Loaded_validating(readable, r) ==
    /\ conversation_history' =
           IF r.ok /\ \A i \in 1..Len(r.val) :
                         /\ r.val[i].role \in ValidRoles
                         /\ r.val[i].role = SYSTEM => i = 1
           THEN r.val
           ELSE conversation_history
    /\ loaded' = (loaded \/ r.ok)
    /\ last' = Completed("load_conversation", conversation_history,
                         [readable |-> readable], NoError, r.ok)

\* load_conversation: open and json.load; the exception is logged, never raised
Loaded(readable, r) ==
    /\ conversation_history' = IF r.ok THEN r.val ELSE conversation_history
    /\ loaded' = (loaded \/ r.ok)
    /\ last' = Completed("load_conversation", conversation_history,
                         [readable |-> readable], NoError, r.ok)

LoadConversation(readable) ==
    /\ pc = "idle"
    /\ IF file.exists /\ readable
       THEN Loaded(TRUE, load(file.data))
       ELSE Loaded(FALSE, Fail)
    /\ UNCHANGED <<file, pc, attempt_number, call, saved, api_key>>

\* the caller calls send_message(message): the retrying wrapper starts
SendMessage(message) ==
    /\ pc = "idle"
    /\ Len(conversation_history) < MaxLen
    /\ pc' = "attempt"
    /\ attempt_number' = 1
    /\ call' = [NoCall EXCEPT !.message = message, !.pre = conversation_history]
    /\ UNCHANGED <<conversation_history, file, last, saved, loaded, api_key>>

\* one run of the body of send_message; outcome is the provider's reply
\* <<text>> or the class of the exception the provider call raises
Attempt(outcome) ==
    /\ pc = "attempt"
    /\ LET sent == add_message(conversation_history, USER, call.message).hist
           made == [call EXCEPT !.requests = Append(@, sent)]
       IN
        IF outcome \notin ErrorKinds
        THEN /\ conversation_history' = add_message(sent, ASSISTANT, outcome[1]).hist
             /\ last' = [Completed("send_message", call.pre, [message |-> call.message],
                                   NoError, outcome)
                            EXCEPT !.call = made]
             /\ pc' = "idle"
             /\ attempt_number' = 0
             /\ call' = NoCall
        ELSE LET failed == send_message_except(made, Exc(outcome, attempt_number))
             IN  /\ conversation_history' = sent
                 /\ IF stop_after_attempt(attempt_number)
                    THEN /\ last' = [Completed("send_message", call.pre,
                                               [message |-> call.message],
                                               reraise(failed.outcome), <<>>)
                                        EXCEPT !.call = failed]
                         /\ pc' = chat_loop_except(reraise(failed.outcome))
                         /\ attempt_number' = 0
                         /\ call' = NoCall
                    ELSE /\ pc' = "sleep"
                         /\ call' = [failed EXCEPT !.sleeps =
                                        Append(@, wait_exponential(attempt_number))]
                         /\ UNCHANGED <<last, attempt_number>>
    /\ UNCHANGED <<file, saved, loaded, api_key>>

\* the sleep between two attempts returns
Sleep ==
    /\ pc = "sleep"
    /\ pc' = "attempt"
    /\ attempt_number' = attempt_number + 1
    /\ UNCHANGED <<conversation_history, file, call, last, saved, loaded, api_key>>

\* the chat loop reads "help": it prints the commands
Help ==
    /\ pc = "idle"
    /\ last' = Completed("help", conversation_history, <<>>, NoError, <<>>)
    /\ UNCHANGED <<conversation_history, file, pc, attempt_number, call, saved, loaded,
                   api_key>>

\* the chat loop reads "exit" or "quit": break
Exit ==
    /\ pc = "idle"
    /\ pc' = "exited"
    /\ last' = Completed("exit", conversation_history, <<>>, NoError, <<>>)
    /\ UNCHANGED <<conversation_history, file, attempt_number, call, saved, loaded,
                   api_key>>

\* Ctrl-C at the prompt, in the provider call or in the sleep:
\* KeyboardInterrupt is no Exception, so neither the except block of
\* send_message nor the retry takes it, and the chat loop catches it
KeyboardInterrupt ==
    /\ pc \in {"idle", "attempt", "sleep"}
    /\ conversation_history' =
           IF pc = "attempt"
           THEN add_message(conversation_history, USER, call.message).hist
           ELSE conversation_history
    /\ pc' = chat_loop_except(Exc("KeyboardInterrupt", 0))
    /\ last' = Completed("KeyboardInterrupt", conversation_history, <<>>,
                         Exc("KeyboardInterrupt", 0), <<>>)
    /\ attempt_number' = 0
    /\ call' = NoCall
    /\ UNCHANGED <<file, saved, loaded, api_key>>

Next ==
    \/ \E text \in Texts : SetSystemPrompt(text)
    \/ \E content \in Texts : AddMessage(SYSTEM, content)
    \/ \E role \in {USER, ASSISTANT, TOOL}, content \in Contents : AddMessage(role, content)
    \/ \E keep \in BOOLEAN : ClearConversation(keep)
    \/ \E outcome \in {"open fails", "write fails", "written"} : SaveConversation(outcome)
    \/ \E readable \in BOOLEAN : LoadConversation(readable)
    \/ \E message \in Contents : SendMessage(message)
    \/ \E outcome \in ErrorKinds \cup {<<t>> : t \in Replies} : Attempt(outcome)
    \/ Sleep
    \/ Help
    \/ Exit
    \/ KeyboardInterrupt

Spec == Init /\ [][Next]_vars

\* The sends of an agent whose provider calls and sleeps all return: nobody
\* interrupts, and between two sends the caller only clears the history.
SendNext ==
    \/ \E message \in Contents : SendMessage(message)
    \/ \E outcome \in ErrorKinds \cup {<<t>> : t \in Replies} : Attempt(outcome)
    \/ Sleep
    \/ \E keep \in BOOLEAN : ClearConversation(keep)

FairSend ==
    /\ Init
    /\ [][SendNext]_vars
    /\ WF_vars(\E outcome \in ErrorKinds \cup {<<t>> : t \in Replies} : Attempt(outcome))
    /\ WF_vars(Sleep)

----------------------------------------------------------------------------
(* Properties *)

\* the caller has the result of a call of op
Returned(op) == pc = "idle" /\ last.op = op

SystemPositions(h) == {i \in 1..Len(h) : h[i].role = SYSTEM}

\* C1: as long as no load has replaced the history, whatever the sequence of
\* set_system_prompt, add_message, clear_conversation and send_message calls
\* (attempts in flight included), the history holds at most one system
\* message, and it is the first message.
C1_SingleSystemAtFront ==
    ~loaded => SystemPositions(conversation_history) \subseteq {1}

\* C1 witness: a system prompt was set on a history that had lost its system
\* message and held other messages.
C1_Witness ==
    /\ ~loaded
    /\ Returned("set_system_prompt")
    /\ last.pre # <<>> /\ last.pre[1].role # SYSTEM
    /\ SystemPositions(conversation_history) = {1}
    /\ Len(conversation_history) >= 2

\* C2 (as claimed): a send_message that raised left the history it found
\* followed by exactly one user message carrying the sent text.
C2_FailedSendAddsOneUserMessage ==
    (Returned("send_message") /\ last.raised # NoError)
        => conversation_history = Append(last.pre, Msg(USER, last.args.message))

\* C3: a send_message whose provider call failed on every attempt called the
\* provider exactly 3 times, slept exactly twice, never after the last
\* attempt, and raised the exception of the third attempt itself, whatever
\* its class.
C3_ExhaustedSend ==
    /\ (Returned("send_message") /\ last.raised # NoError)
          => /\ Len(last.call.requests) = 3
             /\ Len(last.call.sleeps) = 2
             /\ last.raised = last.call.outcome
             /\ last.raised.attempt = 3
             /\ last.raised.kind \in ErrorKinds
    /\ pc = "sleep" => attempt_number < 3

\* C3 witness: a send_message raised the BadRequestError of its third attempt.
C3_Witness ==
    /\ Returned("send_message")
    /\ last.raised = Exc("BadRequestError", 3)
    /\ Len(last.call.requests) = 3

\* C4: a send_message whose provider call failed on attempts 1 and 2 and
\* succeeded on attempt 3 returned the reply of attempt 3 and slept exactly
\* twice, the second time no shorter than the first and neither time longer
\* than the maximum of 10 seconds.
C4_RetriedSendSucceeds ==
    (Returned("send_message") /\ last.raised = NoError /\ Len(last.call.requests) = 3)
        => /\ last.ret \in {<<r>> : r \in Replies}
           /\ conversation_history[Len(conversation_history)] = Msg(ASSISTANT, last.ret[1])
           /\ Len(last.call.sleeps) = 2
           /\ last.call.sleeps[2] >= last.call.sleeps[1]
           /\ last.call.sleeps[1] <= 10
           /\ last.call.sleeps[2] <= 10

\* C4 witness: a send_message returned a reply on its third attempt, after
\* two failures.
C4_Witness ==
    /\ Returned("send_message")
    /\ last.raised = NoError
    /\ Len(last.call.requests) = 3
    /\ last.call.handled = 2
    /\ last.call.sleeps = <<2, 2>>

\* C5 (as claimed): a send_message that returned left the history it found
\* followed by exactly two messages: the user message sent, then the
\* assistant message returned.
C5_SendAddsUserThenAssistant ==
    (Returned("send_message") /\ last.raised = NoError)
        => conversation_history =
               last.pre \o <<Msg(USER, last.args.message), Msg(ASSISTANT, last.ret[1])>>

\* C6: add_message with a role other than system, user and assistant raised
\* ValueError and left the history as it found it.
C6_InvalidRoleRejected ==
    (Returned("add_message") /\ last.args.role \notin {SYSTEM, USER, ASSISTANT})
        => /\ last.raised.kind = "ValueError"
           /\ conversation_history = last.pre

\* C6 witness: add_message was given the role tool on a history of two or
\* more messages and raised.
C6_Witness ==
    /\ Returned("add_message")
    /\ last.args.role = TOOL
    /\ last.raised.kind = "ValueError"
    /\ Len(last.pre) >= 2

\* C7: add_message("system", X) left the history that set_system_prompt(X)
\* leaves from the same history, with X in the first message; on a history
\* that held messages this is never that history with a message appended.
C7_AddSystemIsSetSystemPrompt ==
    (Returned("add_message") /\ last.args.role = SYSTEM)
        => /\ last.raised = NoError
           /\ conversation_history = set_system_prompt(last.pre, last.args.content)
           /\ conversation_history[1] = Msg(SYSTEM, last.args.content)
           /\ last.pre # <<>> =>
                  conversation_history # Append(last.pre, Msg(SYSTEM, last.args.content))

\* C7 witness: add_message("system", X) replaced a different system prompt
\* in a history of two or more messages.
C7_Witness ==
    /\ Returned("add_message")
    /\ last.args.role = SYSTEM
    /\ Len(last.pre) >= 2
    /\ last.pre[1].role = SYSTEM
    /\ last.pre[1].content # last.args.content
    /\ Len(conversation_history) = Len(last.pre)

\* C8: with no load before, set_system_prompt(A) followed by
\* set_system_prompt(B) left exactly one system message, the first, with
\* content B; the second call kept the length; and the result is the one
\* set_system_prompt(B) alone gives from the starting history.
C8_SetSystemPromptTwice ==
    (Returned("set_system_prompt") /\ last.prior.set /\ ~loaded)
        => /\ SystemPositions(conversation_history) = {1}
           /\ conversation_history[1].content = last.args.text
           /\ Len(conversation_history) = Len(last.pre)
           /\ conversation_history = set_system_prompt(last.prior.pre, last.args.text)

\* C8 witness: two set_system_prompt calls in a row, with different texts,
\* on a history that started with a user message.
C8_Witness ==
    /\ Returned("set_system_prompt") /\ last.prior.set /\ ~loaded
    /\ last.prior.text # last.args.text
    /\ last.prior.pre # <<>> /\ last.prior.pre[1].role = USER
    /\ conversation_history[1] = Msg(SYSTEM, last.args.text)

\* C9: clear_conversation(True) on a history whose first message is a system
\* message left that message alone, unchanged; clear_conversation(False),
\* and either call on a history whose first message is not a system message
\* or that is empty, left the empty history.
C9_Clear ==
    Returned("clear_conversation")
        => IF last.args.keep_system_prompt /\ last.pre # <<>> /\ last.pre[1].role = SYSTEM
           THEN conversation_history = <<last.pre[1]>>
           ELSE conversation_history = <<>>

\* C9 witness: clear_conversation(True) kept the system prompt of a history
\* of two or more messages.
C9_Witness ==
    /\ Returned("clear_conversation")
    /\ last.args.keep_system_prompt
    /\ Len(last.pre) >= 2
    /\ last.pre[1].role = SYSTEM
    /\ conversation_history = <<last.pre[1]>>

\* C10: a load_conversation that could read the file a save_conversation
\* wrote from history H succeeded and left a history equal to H, whatever
\* was done to the history in between.
C10_SaveLoadRoundTrip ==
    (Returned("load_conversation") /\ last.args.readable /\ saved.valid)
        => /\ last.ret = TRUE
           /\ conversation_history = saved.hist

\* C10 witness: a history of two messages, one with a quote, a backslash and
\* a newline in it, came back from the file after the history had changed.
C10_Witness ==
    /\ Returned("load_conversation") /\ last.args.readable /\ saved.valid
    /\ last.ret = TRUE
    /\ last.pre # saved.hist
    /\ Len(saved.hist) = 2
    /\ saved.hist[1].content = <<DQ, BS, "n", NL>>
    /\ conversation_history = saved.hist

\* the suggestion that goes with an exception of class kind
SuggestionFor(kind) ==
    CASE kind = "RateLimitError" ->
            "Please try again later. The API is currently experiencing high demand."
      [] kind = "APIConnectionError" ->
            "Please check your internet connection and try again."
      [] kind = "BadRequestError" ->
            "The API request was malformed. Please check your inputs."
      [] kind = "APIError" ->
            "There was an issue with the API. Please try again later."
      [] OTHER ->
            "An unexpected error occurred. Please try again or contact support."

\* C11: every handle_error call of a send_message (in flight or completed)
\* returned an error_info with exactly the fields error_type, message,
\* timestamp and suggestion, all set: error_type is the class name of the
\* exception, message its text, and the suggestion is the one of the most
\* specific class of RateLimitError, APIConnectionError, BadRequestError,
\* APIError, or else the one for unexpected errors; a RateLimitError, which
\* is an APIError too, gets the try-again-later suggestion.
C11_HandleError ==
    \A c \in {call, last.call} :
        c.handled > 0 =>
            /\ DOMAIN c.info = {"error_type", "message", "timestamp", "suggestion"}
            /\ c.info.error_type = c.outcome.kind
            /\ c.info.error_type \in ErrorKinds
            /\ c.info.message = <<"text of", c.outcome.kind, c.outcome.attempt>>
            /\ c.info.timestamp # ""
            /\ c.info.suggestion = SuggestionFor(c.outcome.kind)
            /\ "APIError" \in Bases(c.outcome.kind) /\ c.outcome.kind # "APIError"
                   => c.info.suggestion # SuggestionFor("APIError")

\* C11 witness: the RateLimitError of a first attempt was classified, and the
\* send_message is asleep before its retry.
C11_Witness ==
    /\ pc = "sleep"
    /\ call.handled = 1
    /\ call.outcome = Exc("RateLimitError", 1)
    /\ call.info.error_type = "RateLimitError"
    /\ call.info.suggestion =
           "Please try again later. The API is currently experiencing high demand."

\* C12: in a run whose environment holds no API key (none, or an empty one),
\* the construction raised ValueError, main() gave up, and nothing else ever
\* happened: no command was taken, no history exists, no send_message was
\* started and no provider call made.
C12_MissingCredential ==
    (api_key = <<>> \/ api_key = << <<>> >>) =>
        /\ pc = "aborted"
        /\ last.op = "__init__"
        /\ last.raised = Exc("ValueError", 0)
        /\ conversation_history = <<>>
        /\ call = NoCall
        /\ attempt_number = 0
        /\ ~loaded

\* C12 witness: main() has given up on an environment without OPENAI_API_KEY.
C12_Witness ==
    /\ api_key = <<>>
    /\ pc = "aborted"
    /\ last.raised.kind = "ValueError"

\* C13: handle_error has been called once for every failed attempt of a
\* send_message: before attempt n, n - 1 times; during the sleep after
\* attempt n, n times; when the call has returned or raised, as many times as
\* provider calls failed.
C13_EveryFailureClassifiedOnce ==
    /\ pc = "attempt" => /\ call.handled = Len(call.requests)
                         /\ call.handled = attempt_number - 1
    /\ pc = "sleep" => /\ call.handled = Len(call.requests)
                       /\ call.handled = attempt_number
    /\ Returned("send_message") =>
           last.call.handled =
               Len(last.call.requests) - (IF last.raised = NoError THEN 1 ELSE 0)

\* C13 witness: a send_message returned a reply on its second attempt, after
\* one failure that was classified.
C13_Witness ==
    /\ Returned("send_message")
    /\ last.raised = NoError
    /\ Len(last.call.requests) = 2
    /\ last.call.handled = 1

\* C14: a send_message that raised after its retries left the chat loop
\* running, with the history the send left behind; the loop has ended only
\* after exit, quit or a KeyboardInterrupt.
C14_FailedSendKeepsSession ==
    /\ (last.op = "send_message" /\ last.raised # NoError) =>
           /\ pc \in {"idle", "attempt", "sleep"}
           /\ pc = "idle" =>
                  /\ Len(conversation_history) > Len(last.pre)
                  /\ SubSeq(conversation_history, 1, Len(last.pre)) = last.pre
    /\ pc = "exited" => last.op \in {"exit", "KeyboardInterrupt"}

\* C14 witness: the chat loop is back at its prompt after a send_message that
\* raised the APIConnectionError of its third attempt.
C14_Witness ==
    /\ pc = "idle"
    /\ last.op = "send_message"
    /\ last.raised = Exc("APIConnectionError", 3)
    /\ conversation_history # <<>>

\* C15 (as claimed): on every attempt of a send_message the message list
\* given to the provider was the whole history of that moment, and it was
\* the history the call found followed by exactly one user message, the one
\* sent.
C15_RequestIsHistoryPlusOneUserMessage ==
    /\ pc = "sleep" => call.requests[Len(call.requests)] = conversation_history
    /\ \A c \in {call, last.call} :
        \A i \in 1..Len(c.requests) :
            c.requests[i] = Append(c.pre, Msg(USER, c.message))

\* C16: the wait after failed attempt n is 2, 2, 4, 8 for n = 1..4 and 10
\* from then on, that is max(2, min(10, 2^(n-1))): it lies between 2 and 10
\* and never decreases with n; every sleep of a send_message was 2 seconds,
\* and a send_message of three attempts slept 2 and 2.
C16_Waits ==
    /\ \A n \in 1..MaxAttemptNumber :
        /\ wait_exponential(n) = (IF n <= 4 THEN <<2, 2, 4, 8>>[n] ELSE 10)
        /\ wait_exponential(n) = Max(2, Min(10, 1 * 2 ^ (n - 1)))
        /\ wait_exponential(n) \in 2..10
        /\ wait_exponential(n) <= wait_exponential(n + 1)
    /\ \A c \in {call, last.call} :
        /\ \A i \in 1..Len(c.sleeps) : c.sleeps[i] = 2
        /\ Len(c.requests) = 3 => c.sleeps = <<2, 2>>

\* C16 witness: a send_message is asleep for the second time, having waited
\* 2 seconds after its first attempt and now 2 seconds after its second.
C16_Witness ==
    /\ pc = "sleep"
    /\ attempt_number = 2
    /\ call.sleeps = <<2, 2>>

\* C17: a load_conversation that succeeded made the history the sequence in
\* the file, whatever it holds (system messages anywhere, roles add_message
\* would reject), and a set_system_prompt on a history whose first message is
\* not a system message put one more system message in front of it.
C17_LoadVerbatim ==
    /\ (Returned("load_conversation") /\ last.ret = TRUE) =>
           /\ conversation_history = load(file.data).val
           /\ \A h \in ForeignHistories :
                  file = OnDisk(dump(h)) => conversation_history = h
    /\ (Returned("set_system_prompt") /\ last.pre # <<>> /\ last.pre[1].role # SYSTEM) =>
           /\ conversation_history = <<Msg(SYSTEM, last.args.text)>> \o last.pre
           /\ Cardinality(SystemPositions(conversation_history)) =
                  Cardinality(SystemPositions(last.pre)) + 1

\* C17 witness: a file with a user message followed by two system messages
\* was loaded, and set_system_prompt then put a third system message in front.
C17_Witness ==
    /\ Returned("set_system_prompt")
    /\ loaded
    /\ last.pre \in ForeignHistories
    /\ last.pre[1].role = USER
    /\ SystemPositions(last.pre) = {2, 3}
    /\ SystemPositions(conversation_history) = {1, 3, 4}

\* C18 (as claimed): right after a construction that succeeded, the history
\* is one system message, with the prompt of the caller if one was given,
\* whatever its text, and with the default prompt if none was given.
C18_ConstructedHistory ==
    (pc = "idle" /\ last.op = "__init__") =>
        conversation_history =
            <<Msg(SYSTEM, IF last.args.system_prompt = <<>>
                          THEN DefaultPrompt
                          ELSE last.args.system_prompt[1])>>

\* C18 (amended): right after a construction that succeeded, the history is
\* one system message, with the prompt of the caller if one was given and is
\* not the empty string, and with the default prompt if none was given or
\* the empty string was.
C18_ConstructedHistoryNonEmptyPrompt ==
    (pc = "idle" /\ last.op = "__init__") =>
        /\ Len(conversation_history) = 1
        /\ conversation_history[1].role = SYSTEM
        /\ conversation_history[1].content =
               (IF last.args.system_prompt \in {<<>>, << <<>> >>}
                THEN <<"You are a helpful AI assistant.">>
                ELSE last.args.system_prompt[1])

\* C18 witness: an agent constructed with the empty string as its system
\* prompt holds the default prompt.
C18_Witness ==
    /\ pc = "idle"
    /\ last.op = "__init__"
    /\ last.args.system_prompt = << <<>> >>
    /\ conversation_history = <<Msg(SYSTEM, DefaultPrompt)>>

\* the messages of h that are not system messages, in order
NonSystem(h) == SelectSeq(h, LAMBDA m : m.role # SYSTEM)

IsPrefix(s, t) == Len(s) <= Len(t) /\ SubSeq(t, 1, Len(s)) = s

\* C19: set_system_prompt, add_message and send_message (each attempt of it
\* included) left the non-system messages they found where they were: the
\* non-system messages of the history before the call are a prefix of the
\* non-system messages after it.
C19_NonSystemPrefix ==
    /\ \A op \in {"set_system_prompt", "add_message", "send_message"} :
           Returned(op) => IsPrefix(NonSystem(last.pre), NonSystem(conversation_history))
    /\ pc \in {"attempt", "sleep"} =>
           IsPrefix(NonSystem(call.pre), NonSystem(conversation_history))

\* C19 witness: an assistant message was added to a history that held a user
\* message, and came after it.
C19_Witness ==
    /\ Returned("add_message")
    /\ last.raised = NoError
    /\ last.args.role = ASSISTANT
    /\ NonSystem(last.pre) = <<Msg(USER, <<"Hi">>)>>
    /\ NonSystem(conversation_history) = <<Msg(USER, <<"Hi">>), Msg(ASSISTANT, <<"Hi">>)>>

\* C20: with provider calls and sleeps that all return, a send_message in
\* flight returns or raises; it makes at most 3 provider calls and 2 sleeps;
\* attempt_number never exceeds 3, and every send_message starts at 1.
C20_SendTerminates ==
    /\ [](/\ attempt_number \in 0..3
          /\ Len(call.requests) <= 3
          /\ Len(call.sleeps) <= 2
          /\ Len(last.call.requests) <= 3
          /\ Len(last.call.sleeps) <= 2
          /\ (pc = "attempt" /\ call.requests = <<>>) => attempt_number = 1)
    /\ [][(pc = "idle" /\ pc' = "attempt") => attempt_number' = 1]_vars
    /\ (pc \in {"attempt", "sleep"}) ~> Returned("send_message")

\* C20 witness: a send_message raised after 3 provider calls and 2 sleeps,
\* and attempt_number is back at 0 until the next send_message.
C20_Witness ==
    /\ Returned("send_message")
    /\ last.raised = Exc("Exception", 3)
    /\ Len(last.call.requests) = 3
    /\ Len(last.call.sleeps) = 2
    /\ attempt_number = 0

\* C21: a load_conversation that failed (no file, a file that cannot be
\* read, or a file that is not a JSON document) raised nothing and left the
\* history as it found it; a save_conversation, whether it wrote the file or
\* not, raised nothing and left the history as it found it.
C21_FailedLoadAndSaveKeepHistory ==
    /\ (Returned("load_conversation") /\ last.ret = FALSE) =>
           /\ last.raised = NoError
           /\ conversation_history = last.pre
    /\ (Returned("load_conversation")
            /\ (~file.exists \/ ~last.args.readable \/ ~load(file.data).ok)) =>
           /\ last.ret = FALSE
           /\ conversation_history = last.pre
    /\ Returned("save_conversation") =>
           /\ last.raised = NoError
           /\ conversation_history = last.pre

\* C21 witness: a load_conversation read a file that is there and readable
\* but is not a JSON document, and the history of two messages the call
\* found is still the history.
C21_Witness ==
    /\ Returned("load_conversation")
    /\ last.ret = FALSE
    /\ file.exists
    /\ last.args.readable
    /\ ~load(file.data).ok
    /\ Len(last.pre) = 2
    /\ conversation_history = last.pre

====
